---- MODULE Spec2Model ----
(***************************************************************************)
(* forescore_db: JSON file store (data/trips.json, data/users.json) with   *)
(* rate-limited, queued replication of each file to the GitHub contents    *)
(* API.  The model follows src/unnamed/part_000 (the full server) and,     *)
(* where variant = 1, the first program of src/index.js.                   *)
(*                                                                         *)
(* Node runs one callback at a time: every action below is one callback    *)
(* (a request handler up to its first await, the continuation after an     *)
(* await, a timer callback), run to completion.  A remote request is       *)
(* answered at one instant: the action that delivers the answer.           *)
(* Time is read in steps of the 5000 ms timer period.                      *)
(***************************************************************************)
EXTENDS Integers, Sequences, FiniteSets, TLC

\* ----------------------------------------------------------------- bounds
MaxReq == 2
MaxTicks == 1
MaxFaults == 2
MaxRounds == 2

\* -------------------------------------------------------- program constants
SYNC_INTERVAL == 60000
TICK_MS == 5000
\* let lastSyncTime = null
NULL == -1

FILES == {"trips", "users"}
Usernames == {"alice", "bob"}
TripIds == {"T1"}
Lineups == {"L1"}

VARIABLES
    variant,       \* 1: src/index.js first program; 3: src/unnamed/part_000
    clock,         \* new Date(), in ms
    disk,          \* the local files: [FILES -> [exists, agg, stamp]]
    remote,        \* the GitHub files: [FILES -> [exists, agg, stamp, sha]]
    lastSyncTime,
    syncQueue,
    pushes,        \* the syncToGitHub calls suspended on their GET or PUT
    restoring,     \* the restoreFromGitHub calls suspended on their GET
    handlers,      \* the requests suspended on an await: [1..MaxReq -> ...]
    writable,      \* fs.writeFileSync succeeds
    resp,          \* the response sent by the last callback, if it sent one
    nreq,          \* number of requests accepted so far
    faults,        \* fetches of syncToGitHub that rejected so far
    wseq,          \* history: number of writeJsonFile calls by handlers
    serial,        \* history: the files had each write been applied to the file
                   \* as it then was, one request at a time
    lastPushOk,    \* history: per file, `now` of its last accepted push
    early,         \* history: a request was accepted while a restore was pending
    ev             \* history: what the last callback did

vars == <<variant, clock, disk, remote, lastSyncTime, syncQueue, pushes,
          restoring, handlers, writable, resp, nreq, faults, wseq, serial,
          lastPushOk, early, ev>>

\* ------------------------------------------------------------ aggregates
NoTrips == [t \in {} |-> 0]
EmptyUsers == [users |-> << >>]
EmptyTrips == [trips |-> NoTrips]

\* the defaultValue the handlers pass to readJsonFile
DefaultAgg(f) == IF f = "users" THEN EmptyUsers ELSE EmptyTrips

NoFile(f) == [exists |-> FALSE, agg |-> DefaultAgg(f), stamp |-> 0]

Put(m, k, v) == [x \in DOMAIN m \cup {k} |-> IF x = k THEN v ELSE m[x]]

Remove(s, i) == SubSeq(s, 1, i - 1) \o SubSeq(s, i + 1, Len(s))

Max(a, b) == IF a >= b THEN a ELSE b

\* readJsonFile: the value returned ...
readJsonFile(d, f, defaultValue) ==
    IF d[f].exists THEN d[f].agg ELSE defaultValue

\* a readJsonFile that returns the default without creating the file
readLeaves(d, f, defaultValue) == d

\* ... and the files afterwards (an absent file is created with the default,
\* unless that write throws, which the catch turns into `return defaultValue`)
readCreates(d, f, defaultValue) ==
    IF d[f].exists \/ ~writable THEN d
    ELSE [d EXCEPT ![f] = [exists |-> TRUE, agg |-> defaultValue, stamp |-> 0]]

\* the files after writeJsonFile: a write that throws leaves the file as it was
\* (the error is logged in part_000; logged and thrown again in index.js, first
\* program: see Thrown)
writeJsonFile(d, f, data, s) ==
    IF writable THEN [d EXCEPT ![f] = [exists |-> TRUE, agg |-> data, stamp |-> s]]
    ELSE d

\* writeJsonFile throws to its caller: catch (err) { ...; throw err }
Thrown == variant = 1 /\ ~writable

\* the number of writes after n more calls of writeJsonFile
Written(w, n) == IF writable THEN w + n ELSE w

\* usersData.users.find((u) => u.username === username): its index, or 0
FindUser(usersData, username) ==
    LET hits == {i \in 1..Len(usersData.users) :
                    usersData.users[i].username = username}
    IN IF hits = {} THEN 0 ELSE CHOOSE i \in hits : \A j \in hits : i <= j

Includes(s, x) == \E i \in 1..Len(s) : s[i] = x

\* Array.from({ length: trip.numRounds || 1 }, () => [])
NewScores(trip) ==
    [raw_scores |-> IF trip.numRounds = 0 THEN 1 ELSE trip.numRounds,
     net_scores |-> IF trip.numRounds = 0 THEN 1 ELSE trip.numRounds]

\* readJsonFile(filePath) inside syncToGitHub: defaultValue = {} (part_000),
\* { trips: {} } (index.js, first program)
EmptyObject == [none |-> TRUE]
SyncDefault == IF variant = 1 THEN EmptyTrips ELSE EmptyObject

\* ------------------------------------------- what each handler computes
\* register: usersData.users.push(newUser)
RegisterUser(usersData, username) ==
    [users |-> Append(usersData.users, [username |-> username, trips |-> NoTrips])]

\* add-trip: if (!user.trips[tripId]) user.trips[tripId] = { raw_scores, net_scores }
AddTripUsers(usersData, tripsData, username, tripId) ==
    LET i == FindUser(usersData, username)
        user == usersData.users[i]
    IN IF tripId \in DOMAIN user.trips THEN usersData
       ELSE [users |-> [usersData.users EXCEPT
                ![i].trips = Put(user.trips, tripId, NewScores(tripsData.trips[tripId]))]]

\* add-trip: if (!trip.users.includes(username)) trip.users.push(username)
AddTripTrips(tripsData, username, tripId) ==
    IF Includes(tripsData.trips[tripId].users, username) THEN tripsData
    ELSE [trips |-> [tripsData.trips EXCEPT ![tripId].users = Append(@, username)]]

\* save-scores: user.trips[tripId].raw_scores[round] = raw (and net), on
\* { raw_scores: [], net_scores: [] } when the user has no entry for the trip
SaveScoresUsers(usersData, username, tripId, round) ==
    LET i == FindUser(usersData, username)
        user == usersData.users[i]
        old == IF tripId \in DOMAIN user.trips THEN user.trips[tripId]
               ELSE [raw_scores |-> 0, net_scores |-> 0]
        new == [raw_scores |-> Max(old.raw_scores, round + 1),
                net_scores |-> Max(old.net_scores, round + 1)]
    IN [users |-> [usersData.users EXCEPT ![i].trips = Put(user.trips, tripId, new)]]

\* set-lineup: data.trips[tripId].teams = teams; .lineups = lineups
SetLineupTrips(tripsData, tripId, lineup) ==
    [trips |-> [tripsData.trips EXCEPT ![tripId].lineup = lineup]]

\* POST /trips: the request body
TripBody(tripLeader, numRounds) ==
    [tripLeader |-> tripLeader, numRounds |-> numRounds, users |-> << >>,
     lineup |-> "none"]

\* POST /trips: data.trips[trip.tripId] = trip
PostTripsTrips(tripsData, tripId, trip) ==
    [trips |-> Put(tripsData.trips, tripId, trip)]

\* POST /trips: the trip leader's entry for the trip
PostTripsUsers(usersData, tripId, trip) ==
    LET i == FindUser(usersData, trip.tripLeader)
        user == usersData.users[i]
    IN IF tripId \in DOMAIN user.trips THEN usersData
       ELSE [users |-> [usersData.users EXCEPT
                ![i].trips = Put(user.trips, tripId, NewScores(trip))]]

\* ------------------------------------------------------------ history
\* what a callback did: op, on which file; the file its rate limiter put in the
\* queue; the number of GETs the syncToGitHub call it ended had issued
Ev(op, file, deferred, gets) ==
    [op |-> op, file |-> file, deferred |-> deferred, gets |-> gets]

\* a callback that ended no syncToGitHub call and ran no timer
NoEv == Ev("-", "-", "-", 0)

\* a response: its HTTP status, and whether a writeJsonFile call made for the
\* request failed
Resp(status, lost) == [status |-> status, lost |-> lost]

\* a callback that sent no response
NoResp == Resp(0, FALSE)

\* a request suspended on an await, with its locals; history: the file it wrote
\* first, the number of that write, and whether a write it made failed
Handler(kind, pc, username, tripId, usersData, tripsData) ==
    [kind |-> kind, pc |-> pc, username |-> username, tripId |-> tripId,
     usersData |-> usersData, tripsData |-> tripsData,
     wfile |-> "-", wstamp |-> 0, lost |-> FALSE]

\* the request has called writeJsonFile(f, ...) as write number s
Wrote(hd, f, s) == [hd EXCEPT !.wfile = f, !.wstamp = s, !.lost = ~writable]

\* no request: not yet accepted, or answered
Idle == Handler("-", "done", "-", "-", EmptyUsers, EmptyTrips)

\* res.status(...).json(...)
Responded(hs, h) == [hs EXCEPT ![h] = Idle]

\* --------------------------------------------------------- syncToGitHub
\* the rate limiter's test
\* a limiter that does not look at force
RateLimitedAnyForce(force, now, last) == last # NULL /\ (now - last) < SYNC_INTERVAL

RateLimited(force, now, last) ==
    ~force /\ last # NULL /\ (now - last) < SYNC_INTERVAL

\* a call that passed the rate limiter: data is read, the GET is issued
Started(ps, d, f, now, waiter) ==
    Append(ps, [file |-> f, now |-> now,
                data |-> [agg |-> readJsonFile(d, f, SyncDefault),
                          stamp |-> d[f].stamp],
                sha |-> 0, pc |-> "get", waiter |-> waiter, gets |-> 1])

\* add-trip's change of users.json, made to the file as it is when it is written
SerialAddTripUsers(usersData, tripsData, username, tripId) ==
    IF FindUser(usersData, username) = 0 THEN usersData
    ELSE AddTripUsers(usersData, tripsData, username, tripId)

\* how the promise of a syncToGitHub call settles, for a call that ended "ok" or
\* "failed": the try/catch covers both fetches, and the catch does not throw
\* a syncToGitHub whose catch rethrows
SettlesRejects(outcome) == IF outcome = "failed" THEN "rejected" ELSE "resolved"

Settles(outcome) == "resolved"

\* the status a handler answers with once its awaits are over
Answer(kind) == IF kind = "post-trips" THEN 201 ELSE 200

\* the callback that runs when `await syncToGitHub(...)` settles in handler h
\* (h = 0: the call was not awaited)
Resumed(h, settled, hs, d, ps, w, sr) ==
    IF h = 0
    THEN [handlers |-> hs, disk |-> d, pushes |-> ps, wseq |-> w, serial |-> sr,
          resp |-> NoResp]
    ELSE IF settled = "rejected" /\ hs[h].kind # "post-trips"
    THEN \* set-lineup: catch (err) { res.status(500) }; add-trip: no catch, the
         \* request is never answered; POST /trips goes on: .catch(err => ...)
         [handlers |-> Responded(hs, h),
          disk |-> d, pushes |-> ps, wseq |-> w, serial |-> sr,
          resp |-> IF hs[h].kind = "set-lineup" THEN Resp(500, hs[h].lost) ELSE NoResp]
    ELSE IF hs[h].kind = "add-trip" /\ hs[h].pc = "awaitTrips"
    THEN \* writeJsonFile(FILES.users, usersData); await syncToGitHub(FILES.users, true)
         LET d2 == writeJsonFile(d, "users", hs[h].usersData, w + 1)
         IN [handlers |-> [hs EXCEPT ![h] =
                             [Handler("add-trip", "awaitUsers", "-", "-", EmptyUsers,
                                      EmptyTrips)
                              EXCEPT !.wfile = hs[h].wfile, !.wstamp = hs[h].wstamp,
                                     !.lost = hs[h].lost \/ ~writable]],
             disk |-> d2,
             pushes |-> Started(ps, d2, "users", clock, h),
             wseq |-> Written(w, 1),
             serial |-> [sr EXCEPT !["users"] =
                           SerialAddTripUsers(@, hs[h].tripsData, hs[h].username,
                                              hs[h].tripId)],
             resp |-> NoResp]
    ELSE IF hs[h].kind = "post-trips" /\ hs[h].pc = "awaitTrips"
    THEN \* await syncToGitHub(FILES.users, true)
         [handlers |-> [hs EXCEPT ![h].pc = "awaitUsers"],
          disk |-> readCreates(d, "users", SyncDefault),
          pushes |-> Started(ps, d, "users", clock, h),
          wseq |-> w, serial |-> sr, resp |-> NoResp]
    ELSE \* res.json(user) / res.status(201) / res.status(200)
         [handlers |-> Responded(hs, h),
          disk |-> d, pushes |-> ps, wseq |-> w, serial |-> sr,
          resp |-> Resp(Answer(hs[h].kind), hs[h].lost)]

\* ---------------------------------------------------------------- Init
SeedAgg(f) ==
    IF f = "users"
    THEN [users |-> << [username |-> "alice", trips |-> NoTrips] >>]
    ELSE [trips |-> Put(NoTrips, "T1", TripBody("alice", MaxRounds))]

\* what GitHub holds when the process starts: nothing, or an earlier run's file
RemoteAtStart(f) ==
    { [exists |-> FALSE, agg |-> DefaultAgg(f), stamp |-> 0, sha |-> 0],
      [exists |-> TRUE, agg |-> SeedAgg(f), stamp |-> 0, sha |-> 1] }

InitCommon ==
    /\ clock = 0
    /\ disk = [f \in FILES |-> NoFile(f)]
    /\ lastSyncTime = NULL
    /\ syncQueue = << >>
    /\ pushes = << >>
    /\ handlers = [h \in 1..MaxReq |-> Idle]
    /\ writable = TRUE
    /\ resp = NoResp
    /\ nreq = 0
    /\ early = FALSE
    /\ faults = 0
    /\ wseq = 0
    /\ serial = [f \in FILES |-> DefaultAgg(f)]
    /\ lastPushOk = [f \in FILES |-> NULL]
    /\ ev = NoEv

\* restoreFromGitHub(FILES.trips); restoreFromGitHub(FILES.users); setInterval(...)
\* GitHub holds no file (first start) or the two files of an earlier run
Init ==
    /\ variant = 3
    /\ InitCommon
    /\ remote \in {r \in [FILES -> UNION {RemoteAtStart(f) : f \in FILES}] :
                     /\ \A f \in FILES : r[f] \in RemoteAtStart(f)
                     /\ r["trips"].exists = r["users"].exists}
    /\ restoring = [f \in FILES |-> TRUE]

\* ------------------------------------------------------ request handlers
Accepting ==
    /\ nreq < MaxReq
    /\ nreq' = nreq + 1
    /\ early' = (early \/ \E f \in FILES : restoring[f])

\* POST /users/register, up to `await bcrypt.hash(password, 10)`
Register(username) ==
    /\ Accepting
    /\ LET usersData == readJsonFile(disk, "users", EmptyUsers)
           existingUser == FindUser(usersData, username)
       IN /\ disk' = readCreates(disk, "users", EmptyUsers)
          /\ handlers' = IF existingUser # 0 THEN handlers
                          ELSE [handlers EXCEPT ![nreq + 1] =
                                  Handler("register", "hash", username, "-", usersData,
                                          EmptyTrips)]
          /\ resp' = IF existingUser # 0 THEN Resp(409, FALSE) ELSE NoResp
    /\ ev' = NoEv
    /\ UNCHANGED <<variant, writable, clock, remote, lastSyncTime, syncQueue, pushes,
                   restoring, faults, wseq, serial, lastPushOk>>

\* a handler that reads users.json again after its await
RereadUsers(h) == readJsonFile(disk, "users", EmptyUsers)

\* the usersData a handler read before its await and still holds after it
HeldUsers(h) == handlers[h].usersData

\* POST /users/register, after the hash
RegisterHashed(h) ==
    /\ handlers[h].kind = "register" /\ handlers[h].pc = "hash"
    /\ LET usersData == RegisterUser(HeldUsers(h), handlers[h].username)
           d2 == writeJsonFile(disk, "users", usersData, wseq + 1)
       IN /\ disk' = d2
          /\ pushes' = Started(pushes, d2, "users", clock, 0)
          /\ handlers' = Responded(handlers, h)
    /\ resp' = Resp(201, ~writable)
    /\ wseq' = Written(wseq, 1)
    /\ serial' = [serial EXCEPT !["users"] =
                    IF FindUser(@, handlers[h].username) # 0 THEN @
                    ELSE RegisterUser(@, handlers[h].username)]
    /\ ev' = NoEv
    /\ UNCHANGED <<variant, writable, clock, remote, lastSyncTime, syncQueue, restoring,
                   nreq, faults, lastPushOk, early>>

\* add-trip's change of trips.json, made to the file as it is when it is written
SerialAddTripTrips(tripsData, username, tripId) ==
    IF tripId \notin DOMAIN tripsData.trips THEN tripsData
    ELSE AddTripTrips(tripsData, username, tripId)

\* POST /users/:username/add-trip, up to its first await
AddTrip(username, tripId) ==
    /\ Accepting
    /\ LET usersData == readJsonFile(disk, "users", EmptyUsers)
           tripsData == readJsonFile(disk, "trips", EmptyTrips)
           d1 == readCreates(readCreates(disk, "users", EmptyUsers), "trips", EmptyTrips)
           h == nreq + 1
       IN IF FindUser(usersData, username) = 0 \/ tripId \notin DOMAIN tripsData.trips
          THEN /\ disk' = d1
               /\ resp' = Resp(404, FALSE)
               /\ UNCHANGED <<handlers, pushes, wseq, serial>>
          ELSE LET users2 == AddTripUsers(usersData, tripsData, username, tripId)
               IN IF ~Includes(tripsData.trips[tripId].users, username)
                  THEN LET d2 == writeJsonFile(d1, "trips",
                                    AddTripTrips(tripsData, username, tripId), wseq + 1)
                       IN /\ disk' = d2
                          /\ pushes' = Started(pushes, d2, "trips", clock, h)
                          /\ handlers' = [handlers EXCEPT ![h] =
                                Wrote(Handler("add-trip", "awaitTrips", username, tripId,
                                              users2, tripsData), "trips", wseq + 1)]
                          /\ resp' = NoResp
                          /\ wseq' = Written(wseq, 1)
                          /\ serial' = [serial EXCEPT !["trips"] =
                                SerialAddTripTrips(@, username, tripId)]
                  ELSE LET d2 == writeJsonFile(d1, "users", users2, wseq + 1)
                       IN /\ disk' = d2
                          /\ pushes' = Started(pushes, d2, "users", clock, h)
                          /\ handlers' = [handlers EXCEPT ![h] =
                                Wrote(Handler("add-trip", "awaitUsers", "-", "-",
                                              EmptyUsers, EmptyTrips), "users", wseq + 1)]
                          /\ resp' = NoResp
                          /\ wseq' = Written(wseq, 1)
                          /\ serial' = [serial EXCEPT !["users"] =
                                SerialAddTripUsers(@, tripsData, username, tripId)]
    /\ ev' = NoEv
    /\ UNCHANGED <<variant, writable, clock, remote, lastSyncTime, syncQueue, restoring,
                   faults, lastPushOk>>

\* POST /users/:username/trips/:tripId/save-scores
SaveScores(username, tripId, round) ==
    /\ Accepting
    /\ LET data == readJsonFile(disk, "users", EmptyUsers)
           d1 == readCreates(disk, "users", EmptyUsers)
       IN IF FindUser(data, username) = 0
          THEN /\ disk' = d1
               /\ resp' = Resp(404, FALSE)
               /\ UNCHANGED <<handlers, pushes, wseq>>
          ELSE LET d2 == writeJsonFile(d1, "users",
                            SaveScoresUsers(data, username, tripId, round), wseq + 1)
               IN /\ disk' = d2
                  /\ pushes' = Started(pushes, d2, "users", clock, 0)
                  /\ resp' = Resp(200, ~writable)
                  /\ UNCHANGED handlers
                  /\ wseq' = Written(wseq, 1)
    /\ serial' = [serial EXCEPT !["users"] =
                    IF FindUser(@, username) = 0 THEN @
                    ELSE SaveScoresUsers(@, username, tripId, round)]
    /\ ev' = NoEv
    /\ UNCHANGED <<variant, writable, clock, remote, lastSyncTime, syncQueue, restoring,
                   faults, lastPushOk>>

\* POST /trips/:tripId/set-lineup, up to `await syncToGitHub(FILES.trips, true)`
SetLineup(tripId, lineup) ==
    /\ Accepting
    /\ LET data == readJsonFile(disk, "trips", EmptyTrips)
           d1 == readCreates(disk, "trips", EmptyTrips)
           h == nreq + 1
       IN IF tripId \notin DOMAIN data.trips
          THEN /\ disk' = d1
               /\ resp' = Resp(404, FALSE)
               /\ UNCHANGED <<handlers, pushes, wseq>>
          ELSE LET d2 == writeJsonFile(d1, "trips",
                            SetLineupTrips(data, tripId, lineup), wseq + 1)
               IN /\ disk' = d2
                  /\ pushes' = Started(pushes, d2, "trips", clock, h)
                  /\ handlers' = [handlers EXCEPT ![h] =
                        Wrote(Handler("set-lineup", "awaitTrips", "-", "-", EmptyUsers,
                                      EmptyTrips), "trips", wseq + 1)]
                  /\ resp' = NoResp
                  /\ wseq' = Written(wseq, 1)
    /\ serial' = [serial EXCEPT !["trips"] =
                    IF tripId \notin DOMAIN @.trips THEN @
                    ELSE SetLineupTrips(@, tripId, lineup)]
    /\ ev' = NoEv
    /\ UNCHANGED <<variant, writable, clock, remote, lastSyncTime, syncQueue, restoring,
                   faults, lastPushOk>>

\* POST /trips, up to `await syncToGitHub(FILES.trips, true)`
PostTrips(tripId, tripLeader, numRounds) ==
    /\ Accepting
    /\ LET trip == TripBody(tripLeader, numRounds)
           data == readJsonFile(disk, "trips", EmptyTrips)
           d1 == writeJsonFile(disk, "trips", PostTripsTrips(data, tripId, trip), wseq + 1)
           usersData == readJsonFile(d1, "users", EmptyUsers)
           d2 == readCreates(d1, "users", EmptyUsers)
           user == FindUser(usersData, tripLeader)
           d3 == IF user = 0 THEN d2
                 ELSE writeJsonFile(d2, "users",
                         PostTripsUsers(usersData, tripId, trip), wseq + 2)
           h == nreq + 1
       IN /\ disk' = d3
          /\ wseq' = Written(wseq, IF user = 0 THEN 1 ELSE 2)
          /\ pushes' = Started(pushes, d3, "trips", clock, h)
          /\ handlers' = [handlers EXCEPT ![h] =
                Wrote(Handler("post-trips", "awaitTrips", "-", "-", EmptyUsers,
                              EmptyTrips), "trips", wseq + 1)]
          /\ resp' = NoResp
    /\ serial' = LET trip == TripBody(tripLeader, numRounds)
                 IN [serial EXCEPT
                       !["trips"] = PostTripsTrips(@, tripId, trip),
                       !["users"] = IF FindUser(@, tripLeader) = 0 THEN @
                                    ELSE PostTripsUsers(@, tripId, trip)]
    /\ ev' = NoEv
    /\ UNCHANGED <<variant, writable, clock, remote, lastSyncTime, syncQueue, restoring,
                   faults, lastPushOk>>

\* ----------------------------- src/index.js, first program (variant = 1)
\* a trip of the first program: one team of one player, a score per round
TripV1(numRounds) == [numRounds |-> numRounds, scores |-> [r \in 1..numRounds |-> 0]]

Scores == {1}

\* what GitHub holds when the first program starts
RemoteAtStartV1 ==
    { [exists |-> FALSE, agg |-> EmptyTrips, stamp |-> 0, sha |-> 0],
      [exists |-> TRUE, agg |-> [trips |-> Put(NoTrips, "T1", TripV1(MaxRounds))],
       stamp |-> 0, sha |-> 1] }

\* restoreFromGitHub(FILES.trips); setInterval(...)
InitV1 ==
    /\ variant = 1
    /\ InitCommon
    /\ remote \in {r \in [FILES -> RemoteAtStartV1] :
                     ~r["users"].exists /\ r["trips"] \in RemoteAtStartV1}
    /\ restoring = [f \in FILES |-> f = "trips"]

\* the handlers of the first program: write trips.json, syncToGitHub(FILES.trips, true)
\* (not awaited), answer with status; when writeJsonFile throws, the handler's catch
\* answers 500 (update-score: { success: false })
WroteTrips(data, status) ==
    LET d1 == writeJsonFile(disk, "trips", data, wseq + 1)
    IN /\ disk' = d1
       /\ pushes' = IF Thrown THEN pushes ELSE Started(pushes, d1, "trips", clock, 0)
       /\ wseq' = Written(wseq, 1)
       /\ resp' = IF Thrown THEN Resp(500, TRUE) ELSE Resp(status, FALSE)

\* data.trips[tripId] = { tripId, ..., numRounds, ..., teams }
PostTripsV1Trips(data, tripId, numRounds) ==
    [trips |-> Put(data.trips, tripId, TripV1(numRounds))]

\* POST /trips
PostTripsV1(tripId, numRounds) ==
    /\ Accepting
    /\ WroteTrips(PostTripsV1Trips(readJsonFile(disk, "trips", EmptyTrips), tripId,
                                   numRounds), 201)
    /\ serial' = [serial EXCEPT !["trips"] = PostTripsV1Trips(@, tripId, numRounds)]
    /\ ev' = NoEv
    /\ UNCHANGED <<variant, writable, clock, remote, lastSyncTime, syncQueue, restoring,
                   handlers, faults, lastPushOk>>

\* data.trips[tripId] = { ...data.trips[tripId], ...req.body }, req.body = { numRounds }
PutTripTrips(data, tripId, numRounds) ==
    [trips |-> [data.trips EXCEPT ![tripId].numRounds = numRounds]]

\* PUT /trips/:tripId
PutTrip(tripId, numRounds) ==
    /\ Accepting
    /\ LET data == readJsonFile(disk, "trips", EmptyTrips)
       IN IF tripId \notin DOMAIN data.trips
          THEN /\ disk' = readCreates(disk, "trips", EmptyTrips)
               /\ resp' = Resp(404, FALSE)
               /\ UNCHANGED <<pushes, wseq>>
          ELSE WroteTrips(PutTripTrips(data, tripId, numRounds), 200)
    /\ serial' = [serial EXCEPT !["trips"] =
                    IF tripId \notin DOMAIN @.trips THEN @
                    ELSE PutTripTrips(@, tripId, numRounds)]
    /\ ev' = NoEv
    /\ UNCHANGED <<variant, writable, clock, remote, lastSyncTime, syncQueue, restoring,
                   handlers, faults, lastPushOk>>

\* player.scores[roundIndex] !== undefined
HasRound(data, tripId, roundIndex) ==
    /\ tripId \in DOMAIN data.trips
    /\ roundIndex + 1 \in DOMAIN data.trips[tripId].scores

\* player.scores[roundIndex] = score
UpdateScoreTrips(data, tripId, roundIndex, score) ==
    [trips |-> [data.trips EXCEPT ![tripId].scores[roundIndex + 1] = score]]

\* socket.on('update-score', ...)
UpdateScore(tripId, roundIndex, score) ==
    /\ Accepting
    /\ LET data == readJsonFile(disk, "trips", EmptyTrips)
       IN IF ~HasRound(data, tripId, roundIndex)
          THEN /\ disk' = readCreates(disk, "trips", EmptyTrips)
               /\ resp' = Resp(404, FALSE)
               /\ UNCHANGED <<pushes, wseq>>
          ELSE WroteTrips(UpdateScoreTrips(data, tripId, roundIndex, score), 200)
    /\ serial' = [serial EXCEPT !["trips"] =
                    IF ~HasRound(@, tripId, roundIndex) THEN @
                    ELSE UpdateScoreTrips(@, tripId, roundIndex, score)]
    /\ ev' = NoEv
    /\ UNCHANGED <<variant, writable, clock, remote, lastSyncTime, syncQueue, restoring,
                   handlers, faults, lastPushOk>>

\* ------------------------------------------- syncToGitHub, after its awaits
\* the GET is answered: current.sha is known (undefined when GitHub has no such
\* file), and the PUT is issued with the data read before the GET
GetAnswered(i) ==
    /\ pushes[i].pc = "get"
    /\ pushes' = [pushes EXCEPT ![i].sha = remote[pushes[i].file].sha, ![i].pc = "put"]
    /\ ev' = NoEv
    /\ resp' = NoResp
    /\ UNCHANGED <<variant, writable, clock, disk, remote, lastSyncTime, syncQueue,
                   restoring, handlers, nreq, faults, wseq, serial, lastPushOk, early>>

\* fetch rejects (GET or PUT): catch (err) { syncQueue.push(filePath) }
Caught(i, op) ==
    /\ faults < MaxFaults
    /\ faults' = faults + 1
    /\ LET p == pushes[i]
           r == Resumed(p.waiter, Settles("failed"), handlers, disk, Remove(pushes, i),
                        wseq, serial)
       IN /\ syncQueue' = Append(syncQueue, p.file)
          /\ resp' = r.resp
          /\ handlers' = r.handlers
          /\ disk' = r.disk
          /\ pushes' = r.pushes
          /\ wseq' = r.wseq
          /\ serial' = r.serial
          /\ ev' = Ev(op, p.file, "-", p.gets)
    /\ UNCHANGED <<variant, writable, clock, remote, lastSyncTime, restoring, nreq,
                   lastPushOk, early>>

GetFailed(i) == pushes[i].pc = "get" /\ Caught(i, "getFail")

PutFailed(i) == pushes[i].pc = "put" /\ Caught(i, "putFail")

\* GitHub's answer to the PUT: the file is replaced when the sha sent is the
\* sha of the file it holds, and the PUT is refused (409/422) otherwise
PutAccepts(p) == p.sha = remote[p.file].sha

PutAnswered(i) ==
    /\ pushes[i].pc = "put"
    /\ LET p == pushes[i]
           f == p.file
           ok == PutAccepts(p)
           \* index.js, first program: if (!res.ok) throw ..., then the catch
           thrown == variant = 1 /\ ~ok
           \* index.js, first program: if (syncQueue.length > 0)
           \*   await syncToGitHub(syncQueue.shift())
           drains == variant = 1 /\ ok /\ syncQueue # << >>
           nextFile == Head(syncQueue)
           limited == RateLimited(FALSE, clock, p.now)
           r == Resumed(p.waiter, Settles(IF thrown THEN "failed" ELSE "ok"), handlers,
                        disk, Remove(pushes, i), wseq, serial)
       IN /\ resp' = r.resp
          /\ remote' = IF ok
                       THEN [remote EXCEPT ![f] = [exists |-> TRUE, agg |-> p.data.agg,
                                                   stamp |-> p.data.stamp,
                                                   sha |-> @.sha + 1]]
                       ELSE remote
          /\ lastSyncTime' = IF thrown THEN lastSyncTime ELSE p.now
          /\ lastPushOk' = IF ok THEN [lastPushOk EXCEPT ![f] = p.now] ELSE lastPushOk
          /\ syncQueue' = IF thrown THEN Append(syncQueue, f)
                          ELSE IF drains /\ limited THEN Append(Tail(syncQueue), nextFile)
                          ELSE IF drains THEN Tail(syncQueue)
                          ELSE syncQueue
          /\ handlers' = r.handlers
          /\ wseq' = r.wseq
          /\ serial' = r.serial
          /\ disk' = IF drains /\ ~limited
                     THEN readCreates(r.disk, nextFile, SyncDefault) ELSE r.disk
          /\ pushes' = IF drains /\ ~limited
                       THEN Started(r.pushes, r.disk, nextFile, clock, 0) ELSE r.pushes
          /\ ev' = Ev(IF ok THEN "putAccepted" ELSE "putRejected", f,
                      IF drains /\ limited THEN nextFile ELSE "-", p.gets)
    /\ UNCHANGED <<variant, writable, clock, restoring, nreq, faults, early>>

\* setInterval(() => { if (syncQueue.length > 0) syncToGitHub(syncQueue.shift()) }, 5000)
Tick ==
    /\ clock < MaxTicks * TICK_MS
    /\ clock' = clock + TICK_MS
    /\ resp' = NoResp
    /\ LET now == clock + TICK_MS
           f == Head(syncQueue)
       IN IF syncQueue = << >>
          THEN /\ ev' = NoEv
               /\ UNCHANGED <<syncQueue, pushes, disk>>
          ELSE IF RateLimited(FALSE, now, lastSyncTime)
          THEN /\ syncQueue' = Append(Tail(syncQueue), f)
               /\ ev' = Ev("tick", f, f, 0)
               /\ UNCHANGED <<pushes, disk>>
          ELSE /\ syncQueue' = Tail(syncQueue)
               /\ pushes' = Started(pushes, disk, f, now, 0)
               /\ disk' = readCreates(disk, f, SyncDefault)
               /\ ev' = Ev("tick", f, "-", 0)
    /\ UNCHANGED <<variant, writable, remote, lastSyncTime, restoring, handlers, nreq,
                   faults, wseq, serial, lastPushOk, early>>

\* ------------------------------------------------------ restoreFromGitHub
\* the catch: nothing (part_000); writeJsonFile(filePath, readJsonFile(filePath))
\* (index.js, first program)
\* a catch that falls back to the default aggregate, not to the local file
RestoreCaughtDefault(d, f) == [d EXCEPT ![f] = NoFile(f)]

RestoreCaught(d, f) == IF variant = 1 THEN readCreates(d, f, EmptyTrips) ELSE d

\* what restoreFromGitHub logs once its fetch was answered: "Restored ... from
\* GitHub" after writeJsonFile returned, the catch's message otherwise
RestoreLogs(f) == IF remote[f].exists /\ ~Thrown THEN "restored" ELSE "failed"

RestoreAnswered(f) ==
    /\ restoring[f]
    /\ restoring' = [restoring EXCEPT ![f] = FALSE]
    /\ resp' = NoResp
    /\ IF remote[f].exists
       THEN /\ disk' = writeJsonFile(disk, f, remote[f].agg, remote[f].stamp)
            /\ serial' = [serial EXCEPT ![f] = remote[f].agg]
            /\ ev' = NoEv
       ELSE /\ disk' = RestoreCaught(disk, f)
            /\ ev' = NoEv
            /\ UNCHANGED serial
    /\ UNCHANGED <<variant, writable, clock, remote, lastSyncTime, syncQueue, pushes,
                   handlers, nreq, faults, wseq, lastPushOk, early>>

\* the restore's fetch rejects (at most once per file: it needs no bound)
RestoreFailed(f) ==
    /\ restoring[f]
    /\ restoring' = [restoring EXCEPT ![f] = FALSE]
    /\ disk' = RestoreCaught(disk, f)
    /\ ev' = NoEv
    /\ resp' = NoResp
    /\ UNCHANGED <<variant, writable, clock, remote, lastSyncTime, syncQueue, pushes,
                   handlers, nreq, faults, wseq, serial, lastPushOk, early>>

\* ------------------------------------------------------------- the disk
\* the files the program works on
Used == IF variant = 1 THEN {"trips"} ELSE FILES

\* from now on fs.writeFileSync throws (disk full, file or directory read-only)
\* once the files the program works on exist
DiskFails ==
    /\ writable
    /\ \A f \in Used : disk[f].exists
    /\ writable' = FALSE
    /\ ev' = NoEv
    /\ resp' = NoResp
    /\ UNCHANGED <<variant, clock, disk, remote, lastSyncTime, syncQueue, pushes,
                   restoring, handlers, nreq, faults, wseq, serial, lastPushOk, early>>

\* ------------------------------------------------------------------ Spec
Next ==
    \/ \E u \in Usernames : Register(u)
    \/ \E h \in 1..MaxReq : RegisterHashed(h)
    \/ \E u \in Usernames, t \in TripIds : AddTrip(u, t)
    \/ \E u \in Usernames, t \in TripIds, r \in 0..(MaxRounds - 1) : SaveScores(u, t, r)
    \/ \E t \in TripIds, l \in Lineups : SetLineup(t, l)
    \/ \E t \in TripIds, u \in Usernames, n \in 1..MaxRounds : PostTrips(t, u, n)
    \/ \E i \in 1..Len(pushes) : GetAnswered(i)
    \/ \E i \in 1..Len(pushes) : GetFailed(i)
    \/ \E i \in 1..Len(pushes) : PutAnswered(i)
    \/ \E i \in 1..Len(pushes) : PutFailed(i)
    \/ Tick
    \/ \E f \in FILES : RestoreAnswered(f)
    \/ \E f \in FILES : RestoreFailed(f)

Spec == Init /\ [][Next]_vars

NextV1 ==
    \/ \E t \in TripIds, n \in 1..MaxRounds : PostTripsV1(t, n)
    \/ \E t \in TripIds, n \in 1..MaxRounds : PutTrip(t, n)
    \/ \E t \in TripIds, r \in 0..(MaxRounds - 1), sc \in Scores : UpdateScore(t, r, sc)
    \/ \E i \in 1..Len(pushes) : GetAnswered(i)
    \/ \E i \in 1..Len(pushes) : GetFailed(i)
    \/ \E i \in 1..Len(pushes) : PutAnswered(i)
    \/ \E i \in 1..Len(pushes) : PutFailed(i)
    \/ Tick
    \/ \E f \in FILES : RestoreAnswered(f)
    \/ \E f \in FILES : RestoreFailed(f)
    \/ DiskFails

SpecV1 == InitV1 /\ [][NextV1]_vars

\* part_000 on a disk that may stop taking writes, GitHub answering every request
NextDisk ==
    \/ \E u \in Usernames : Register(u)
    \/ \E h \in 1..MaxReq : RegisterHashed(h)
    \/ \E u \in Usernames, t \in TripIds : AddTrip(u, t)
    \/ \E u \in Usernames, t \in TripIds, r \in 0..(MaxRounds - 1) : SaveScores(u, t, r)
    \/ \E t \in TripIds, l \in Lineups : SetLineup(t, l)
    \/ \E t \in TripIds, u \in Usernames, n \in 1..MaxRounds : PostTrips(t, u, n)
    \/ \E i \in 1..Len(pushes) : GetAnswered(i)
    \/ \E i \in 1..Len(pushes) : PutAnswered(i)
    \/ \E f \in FILES : RestoreAnswered(f)
    \/ DiskFails

SpecDisk == Init /\ [][NextDisk]_vars

\* part_000 with add-trip and set-lineup, which await their pushes; the timer fires
\* as long as the process runs, GitHub may answer a request or never do so
NextFair ==
    \/ \E u \in Usernames, t \in TripIds : AddTrip(u, t)
    \/ \E t \in TripIds, l \in Lineups : SetLineup(t, l)
    \/ \E i \in 1..Len(pushes) : GetAnswered(i)
    \/ \E i \in 1..Len(pushes) : GetFailed(i)
    \/ \E i \in 1..Len(pushes) : PutAnswered(i)
    \/ \E i \in 1..Len(pushes) : PutFailed(i)
    \/ Tick
    \/ \E f \in FILES : RestoreAnswered(f)

SpecFair == Init /\ [][NextFair]_vars /\ WF_vars(Tick)

\* ---------------------------------------------------------- syncToGitHub
\* the instants at which syncToGitHub is observed, and a push had succeeded
Times == {0, TICK_MS, SYNC_INTERVAL, SYNC_INTERVAL + TICK_MS}

\* the process has run for a while: both files restored, the last successful
\* push (if any) started at lastSyncTime
InitSync ==
    /\ variant = 3
    /\ clock \in Times
    /\ lastSyncTime \in {NULL} \cup {t \in Times : t <= clock}
    /\ disk = [f \in FILES |-> [exists |-> TRUE, agg |-> SeedAgg(f), stamp |-> 0]]
    /\ remote = [f \in FILES |->
                   [exists |-> TRUE, agg |-> SeedAgg(f), stamp |-> 0, sha |-> 1]]
    /\ restoring = [f \in FILES |-> FALSE]
    /\ syncQueue = << >>
    /\ pushes = << >>
    /\ handlers = [h \in 1..MaxReq |-> Idle]
    /\ writable = TRUE
    /\ resp = NoResp
    /\ nreq = 0
    /\ early = FALSE
    /\ faults = 0
    /\ wseq = 0
    /\ serial = [f \in FILES |-> SeedAgg(f)]
    /\ lastPushOk = [f \in FILES |-> NULL]
    /\ ev = NoEv

\* one call syncToGitHub(f, force) made for a request, up to its return or its
\* first await
Called(f, force) ==
    /\ nreq < MaxReq
    /\ nreq' = nreq + 1
    /\ IF RateLimited(force, clock, lastSyncTime)
       THEN /\ syncQueue' = Append(syncQueue, f)
            /\ ev' = Ev("call", f, f, 0)
            /\ UNCHANGED <<pushes, disk>>
       ELSE /\ pushes' = Started(pushes, disk, f, clock, 0)
            /\ disk' = readCreates(disk, f, SyncDefault)
            /\ ev' = Ev("call", f, "-", 0)
            /\ UNCHANGED syncQueue
    /\ resp' = NoResp
    /\ UNCHANGED <<variant, writable, clock, remote, lastSyncTime, restoring, handlers,
                   faults, wseq, serial, lastPushOk, early>>

NextSync ==
    \/ \E f \in FILES, force \in BOOLEAN : Called(f, force)
    \/ \E i \in 1..Len(pushes) : GetAnswered(i)
    \/ \E i \in 1..Len(pushes) : PutAnswered(i)
    \/ Tick

SpecSync == InitSync /\ [][NextSync]_vars

\* --------------------------------------------------------------- claims
Quiescent ==
    /\ pushes = << >>
    /\ syncQueue = << >>
    /\ \A f \in FILES : ~restoring[f]
    /\ \A h \in 1..MaxReq : handlers[h] = Idle

InFlight(f) == {i \in 1..Len(pushes) : pushes[i].file = f}

\* C1: once the requests accepted after the restores have all been answered, each
\* local file holds what they produce when run one at a time in the order they
\* were accepted (no request overwrites another's write with what it read before)
C1_Serializable ==
    (~early /\ (\A f \in FILES : ~restoring[f]) /\ (\A h \in 1..MaxReq : handlers[h] = Idle))
        => \A f \in FILES : readJsonFile(disk, f, DefaultAgg(f)) = serial[f]

\* C2: at most one syncToGitHub call per file is between its GET and the end of
\* its PUT
C2_OnePushPerFile == \A f \in FILES : Cardinality(InFlight(f)) <= 1

\* C3: an accepted PUT never replaces the remote content by an older local
\* aggregate (stamp: the number of the local write that produced the aggregate)
C3_NoOlderContent == [][\A f \in FILES : remote'[f].stamp >= remote[f].stamp]_vars

\* C4: with no push in flight, nothing queued and no transport error ever, the
\* remote content of every file written locally equals the local file
C4_RemoteCaughtUp ==
    (Quiescent /\ faults = 0)
        => \A f \in FILES : disk[f].stamp > 0 => remote[f].agg = disk[f].agg

\* C5: a restore that ends never replaces a file a request has written since the
\* process started
C5_RestoreBeforeMutation ==
    [][\A f \in FILES :
         (restoring[f] /\ ~restoring'[f] /\ disk[f].stamp > 0) => disk'[f] = disk[f]]_vars

\* C6: syncQueue never holds a file twice
C6_NoDuplicates ==
    \A i, j \in 1..Len(syncQueue) : i # j => syncQueue[i] # syncQueue[j]

\* C7: a call whose PUT is refused for a stale sha goes on with its next attempt
\* (a new GET), and ends only when it has made 3 attempts
C7_BoundedRetry ==
    ev.op = "putRejected"
        => \/ ev.gets = 3
           \/ \E i \in InFlight(ev.file) : pushes[i].gets = ev.gets + 1

\* C8: after a PUT refused for a stale sha, a later attempt for the file is
\* pending (queued or in flight) unless the remote already holds the local content
C8_RejectedIsRetried ==
    ev.op = "putRejected"
        => \/ Includes(syncQueue, ev.file)
           \/ InFlight(ev.file) # {}
           \/ remote[ev.file].agg = disk[ev.file].agg

\* C9: lastSyncTime changes only in a callback that ends a push whose PUT was
\* accepted
C9_LastSyncOnlyOnAccept ==
    [][lastSyncTime' # lastSyncTime => ev'.op = "putAccepted"]_vars

\* C10: the rate limiter defers a file only when that file's own last accepted
\* push is less than SYNC_INTERVAL old
C10_PerCollection ==
    ev.deferred # "-"
        => /\ lastPushOk[ev.deferred] # NULL
           /\ clock - lastPushOk[ev.deferred] < SYNC_INTERVAL

\* C11: a tick of the drain timer that finds syncQueue non-empty takes one file
\* off the queue and starts its push whatever lastSyncTime is: the file is never
\* put back in the queue without a remote request
C11_DrainBypassesLimiter == ev.op = "tick" => ev.deferred = "-"

\* C12: a push that fails (its GET or PUT throws, or its PUT is answered non-2xx)
\* ends with its file at the back of syncQueue: no failed push leaves its file
\* both different from the remote's and absent from the queue
C12_FailedIsRequeued ==
    ev.op \in {"getFail", "putFail", "putRejected"}
        => \/ syncQueue # << >> /\ syncQueue[Len(syncQueue)] = ev.file
           \/ remote[ev.file].agg = disk[ev.file].agg

\* C13: a restore whose fetch was answered with the remote's content and that
\* reports success leaves the local file holding exactly that content
C13_RestoreReplaces ==
    [][\A f \in FILES :
          (RestoreAnswered(f) /\ RestoreLogs(f) = "restored")
              => disk'[f].exists /\ disk'[f].agg = remote[f].agg]_vars

\* C14: a restore whose fetch fails, or is answered that the remote holds no
\* file, leaves the content read from the local file as it was (the default
\* aggregate where no file existed)
C14_FailedRestoreKeepsLocal ==
    [][\A f \in FILES :
          (RestoreFailed(f) \/ (RestoreAnswered(f) /\ ~remote[f].exists))
              => readJsonFile(disk', f, DefaultAgg(f))
                     = readJsonFile(disk, f, DefaultAgg(f))]_vars

\* both restores ended on an absent remote and a mutation accepted afterwards
\* was written to trips.json
C14_Witness ==
    /\ ~early
    /\ \A f \in FILES : ~restoring[f] /\ ~remote[f].exists
    /\ disk["trips"].stamp > 0

\* C15: no request whose writeJsonFile could not write the file is answered
\* with a success status
C15_LostWriteIsAnError == resp.lost => resp.status \notin {200, 201}

\* C16: a handler that ends after its file was written answers 200 or 201,
\* whether the pushes it started or awaited were accepted, failed or rejected
C16_SyncNeverChangesAnswer ==
    [][\A h \in 1..MaxReq :
          (handlers[h] # Idle /\ handlers'[h] = Idle /\ ~resp'.lost)
              => resp'.status \in {200, 201}]_vars

\* a push has just failed in its GET or PUT and the handler awaiting it answered
\* with success
C16_Witness == ev.op \in {"getFail", "putFail"} /\ resp.status \in {200, 201}

\* C17: every push that was started ends, so that eventually no push is
\* awaiting an answer from the remote
C17_PushTerminates == (pushes # << >>) ~> (pushes = << >>)

\* C18: with every request accepted after the restores and no push failed, the
\* first push of trips.json the remote accepts carries every write made to the
\* file so far
C18_BothInNextPush ==
    [][(~early /\ faults = 0 /\ lastPushOk["trips"] = NULL
            /\ lastPushOk'["trips"] # NULL)
          => remote'["trips"].stamp >= disk["trips"].stamp]_vars

\* C19: with no push failed (every push then stems from one mutation), two
\* pushes of the same file that the remote accepts were started at least
\* SYNC_INTERVAL apart: mutations made within the interval share one push
C19_OnePushPerWindow ==
    [][\A f \in FILES :
          (~early /\ faults = 0 /\ lastPushOk[f] # NULL
              /\ remote'[f].sha # remote[f].sha)
              => lastPushOk'[f] - lastPushOk[f] >= SYNC_INTERVAL]_vars

\* C20: when a handler that was accepted after the restores answers 200 or 201,
\* the file it wrote holds that write or a later one, so that a read which
\* follows the response returns the mutation
C20_ReadYourWrite ==
    [][\A h \in 1..MaxReq :
          (~early /\ handlers[h] # Idle /\ handlers'[h] = Idle
              /\ handlers[h].wfile # "-" /\ resp'.status \in {200, 201})
              => disk'[handlers[h].wfile].stamp >= handlers[h].wstamp]_vars

\* C21: a save-scores request that is accepted after the restores and answered
\* 200 leaves the user's score arrays for the trip as long as they were, and an
\* entry it creates for a trip of trips.json has arrays as long as the trip's
\* numRounds
C21_ScoreLengths ==
    [][\A u \in Usernames, t \in TripIds, r \in 0..(MaxRounds - 1) :
          (SaveScores(u, t, r) /\ ~early' /\ resp'.status = 200 /\ ~resp'.lost)
              => LET before == readJsonFile(disk, "users", EmptyUsers)
                     after == readJsonFile(disk', "users", EmptyUsers)
                     tripsData == readJsonFile(disk, "trips", EmptyTrips)
                     old == before.users[FindUser(before, u)].trips
                     new == after.users[FindUser(after, u)].trips
                 IN /\ t \in DOMAIN old => new[t] = old[t]
                    /\ (t \notin DOMAIN old /\ t \in DOMAIN tripsData.trips)
                          => new[t] = NewScores(tripsData.trips[t])]_vars

\* C22: users.json never holds two records with the same username
C22_UniqueUsernames ==
    LET users == readJsonFile(disk, "users", EmptyUsers).users
    IN \A i, j \in 1..Len(users) : users[i].username = users[j].username => i = j

\* two registrations of bob, the only writers so far, each wrote users.json:
\* the second passed its check before the first one wrote
C22_Witness ==
    /\ wseq = MaxReq
    /\ disk["trips"].stamp = 0
    /\ disk["users"].stamp = wseq
    /\ disk["users"].agg = serial["users"]
    /\ disk["users"].agg.users = << [username |-> "bob", trips |-> NoTrips] >>

C24_LimiterDecides ==
    [][\A f \in FILES, force \in BOOLEAN :
          Called(f, force)
              => IF force \/ lastSyncTime = NULL
                       \/ clock - lastSyncTime >= SYNC_INTERVAL
                 THEN /\ Len(pushes') = Len(pushes) + 1
                      /\ pushes'[Len(pushes')].file = f
                      /\ pushes'[Len(pushes')].pc = "get"
                      /\ syncQueue' = syncQueue
                 ELSE /\ pushes' = pushes
                      /\ syncQueue' = Append(syncQueue, f)]_vars

\* an unforced call made less than SYNC_INTERVAL after a successful push has
\* just queued its file and started nothing
C24_Witness ==
    /\ ev.op = "call" /\ ev.deferred = ev.file
    /\ lastSyncTime # NULL /\ clock - lastSyncTime < SYNC_INTERVAL
    /\ pushes = << >> /\ syncQueue = << ev.file >>

\* C25: when the GET of a push is answered (every request accepted after the
\* restores), the content the push is about to PUT is the content of the local
\* file at that moment
C25_PayloadReadAfterGet ==
    [][\A i \in 1..Len(pushes) :
          (~early /\ GetAnswered(i))
              => pushes'[i].data.agg = disk[pushes[i].file].agg]_vars

\* C26: no step replaces lastSyncTime by an earlier instant (null, the initial
\* value, counts as earlier than every instant)
C26_LastSyncTimeMonotone == [][lastSyncTime' >= lastSyncTime]_vars

\* C27: in the first program of index.js, a push that is accepted while
\* syncQueue is not empty leaves the queue one entry shorter and starts a
\* push of the entry it took from the queue
C27_DrainShortensQueue ==
    [][\A i \in 1..Len(pushes) :
          (variant = 1 /\ PutAnswered(i) /\ PutAccepts(pushes[i]) /\ syncQueue # << >>)
              => /\ Len(syncQueue') < Len(syncQueue)
                 /\ \E j \in 1..Len(pushes') : /\ pushes'[j].file = Head(syncQueue)
                                                /\ pushes'[j].pc = "get"]_vars
====
